---- MODULE Spec2Model ----
(***************************************************************************)
(* The directive processor of the ledger (src/src/core/process.rs): each   *)
(* directive kind has a process(ledger, context) rule; the ledger holds    *)
(* accounts, the running snapshot, the daily snapshots and the error log,  *)
(* the context holds target_day.  Decimals are integers counting           *)
(* thousandths (1 is 0.001, 10 is 0.010), so that amounts below the        *)
(* balance tolerance of 0.005 can be told from zero.                       *)
(***************************************************************************)
EXTENDS Integers, Sequences, FiniteSets, TLC

\* ------------------------------------------------------------------ bounds
MaxDate == 3
MaxSteps == 2
MaxAccountSteps == 3
MaxDaySteps == 3
MaxPadSteps == 3

Dates == 1..MaxDate
Accounts == {"Assets:Cash", "Equity:Pad"}
Commodities == {"USD", "CNY"}

\* Option<T>: None is the empty sequence, Some(x) the one-element sequence.
None == <<>>
Some(x) == <<x>>

\* HashMap: a function on the set of its keys.
EmptyMap == [k \in {} |-> 0]
Put(m, k, v) == [x \in (DOMAIN m) \cup {k} |-> IF x = k THEN v ELSE m[x]]

\* Amount::new(number, currency); numbers count thousandths.
Amount(number, currency) == [number |-> number, currency |-> currency]

\* operating_currency_precision when no Option sets it.
DefaultPrecision == 2

\* The integer an option value spells.
ParsePrecision(value) == IF value = "3" THEN 3 ELSE 2

\* 0.5 * 10^(-precision) in thousandths: 5 for precision 2; for precision 3 it
\* is half a thousandth, which a whole number of thousandths exceeds iff it
\* exceeds 0.
ToleranceOf(precision) == IF precision = 3 THEN 0 ELSE 5

\* The tolerance a ledger's options ask for.
Tolerance(configs) ==
    ToleranceOf(IF "operating_currency_precision" \in DOMAIN configs
                THEN ParsePrecision(configs["operating_currency_precision"])
                ELSE DefaultPrecision)

Units ==
    { Amount(-10, "USD"), Amount(10, "USD"), Amount(1, "USD"), Amount(10, "CNY") }

\* ------------------------------------------------- account snapshot (4.2)
\* ProcessContext::default_account_snapshot: an empty inventory.
default_account_snapshot == EmptyMap

\* AccountSnapshot::get: the stored value, or zero if absent.
get(account_snapshot, currency) ==
    IF currency \in DOMAIN account_snapshot THEN account_snapshot[currency] ELSE 0

\* AccountSnapshot::add_amount: inventory[a.currency] += a.number, creating the key.
add_amount(account_snapshot, amount) ==
    Put(account_snapshot, amount.currency,
        get(account_snapshot, amount.currency) + amount.number)

\* snapshot.entry(name).or_insert_with(default_account_snapshot)
entry_or_default(snapshot, name) ==
    IF name \in DOMAIN snapshot THEN snapshot[name] ELSE default_account_snapshot

\* DailyAccountSnapshot::insert_snapshot(day, snapshot)
insert_snapshot(daily_snapshot, day, snapshot) == Put(daily_snapshot, day, snapshot)

\* ------------------------------------------------- record_daily_snapshot
\* As record_daily_snapshot, but storing the snapshot on every call after the first.
record_daily_snapshot_every_call(snapshot, daily_snapshot, target_day, date) ==
    IF target_day # None
    THEN [daily_snapshot |-> insert_snapshot(daily_snapshot, target_day[1], snapshot),
          target_day |-> Some(date)]
    ELSE [daily_snapshot |-> daily_snapshot, target_day |-> Some(date)]

\* As record_daily_snapshot, but freezing the snapshot under the new date.
record_daily_snapshot_new_day(snapshot, daily_snapshot, target_day, date) ==
    IF target_day # None
    THEN IF date # target_day[1]
         THEN [daily_snapshot |-> insert_snapshot(daily_snapshot, date, snapshot),
               target_day |-> Some(date)]
         ELSE [daily_snapshot |-> daily_snapshot, target_day |-> target_day]
    ELSE [daily_snapshot |-> daily_snapshot, target_day |-> Some(date)]

record_daily_snapshot(snapshot, daily_snapshot, target_day, date) ==
    IF target_day # None
    THEN IF date # target_day[1]
         THEN [daily_snapshot |-> insert_snapshot(daily_snapshot, target_day[1], snapshot),
               target_day |-> Some(date)]
         ELSE [daily_snapshot |-> daily_snapshot, target_day |-> target_day]
    ELSE [daily_snapshot |-> daily_snapshot, target_day |-> Some(date)]

\* ------------------------------------------------------------ directives
Metas == {EmptyMap, [note |-> "x"]}
OpenDirectives(date) ==
    [kind : {"Open"}, date : {date}, account : Accounts,
     commodities : {{}, {"USD"}}, meta : Metas]
CloseDirectives(date) ==
    [kind : {"Close"}, date : {date}, account : Accounts, meta : Metas]

\* Two postings on different accounts; the second may come without units.
FirstPostings == [account : Accounts, units : {Some(u) : u \in Units}]
SecondPostings ==
    [account : Accounts, units : {None, Some(Amount(-10, "USD")), Some(Amount(1, "USD"))}]
TransactionDirectives(date) ==
    {[kind |-> "Transaction", date |-> date, postings |-> pp] :
        pp \in {qq \in FirstPostings \X SecondPostings : qq[1].account # qq[2].account}}

BalanceAmounts == {Amount(0, "USD"), Amount(10, "USD")}
BalanceCheckDirectives(date) ==
    [kind : {"BalanceCheck"}, date : {date}, account : Accounts,
     amount : BalanceAmounts, current_amount : {None}, distance : {None}]
BalancePadDirectives(date) ==
    [kind : {"BalancePad"}, date : {date}, account : Accounts,
     amount : BalanceAmounts, pad : Accounts]

OptionsDirectives(date) ==
    [kind : {"Options"}, date : {date}, key : {"operating_currency_precision"},
     value : {"2", "3"}]
CommodityDirectives(date) ==
    [kind : {"Commodity"}, date : {date}, currency : Commodities]
DocumentDirectives(date) ==
    [kind : {"Document"}, date : {date}, account : {"Assets:Cash"},
     filename : {"receipt.pdf"}]
PriceDirectives(date) ==
    [kind : {"Price"}, date : {date}, currency : {"USD"}, amount : {Amount(7000, "CNY")}]

\* ----------------------------------------------- Transaction (data side)
RECURSIVE SumOf(_, _)
\* Sum of the explicit units of commodity c over a sequence of postings.
SumOf(postings, c) ==
    IF postings = <<>> THEN 0
    ELSE LET p == Head(postings)
         IN (IF p.units # None /\ p.units[1].currency = c THEN p.units[1].number ELSE 0)
            + SumOf(Tail(postings), c)

ExplicitCurrencies(postings) ==
    {postings[i].units[1].currency : i \in {j \in DOMAIN postings : postings[j].units # None}}

\* TxnPosting::units: the posting's units, or, for the posting without units,
\* the negation of the residual of the others.
units(self, posting) ==
    IF posting.units # None THEN posting.units[1]
    ELSE LET c == CHOOSE c \in ExplicitCurrencies(self.postings) : TRUE
         IN Amount(-SumOf(self.postings, c), c)

\* Transaction::txn_postings: the postings with their (possibly inferred) units.
txn_postings(self) ==
    [i \in DOMAIN self.postings |->
        [account |-> self.postings[i].account,
         units |-> units(self, self.postings[i])]]

RECURSIVE Residual(_, _)
Residual(txn_postings_, c) ==
    IF txn_postings_ = <<>> THEN 0
    ELSE (IF Head(txn_postings_).units.currency = c THEN Head(txn_postings_).units.number ELSE 0)
         + Residual(Tail(txn_postings_), c)

Abs(x) == IF x < 0 THEN -x ELSE x

\* Transaction::is_balance: the per-commodity sum of the inferred units is zero
\* within the default tolerance.
is_balance(self) ==
    \A c \in Commodities :
        Abs(Residual(txn_postings(self), c)) <= ToleranceOf(DefaultPrecision)

\* ------------------------------------------------------- process rules
\* Each rule maps (self, ledger, context) to the three after the call and to
\* the ZhangResult it returns, which is Ok(()) at the end of every rule.
Result(self, ledger, context) ==
    [self |-> self, ledger |-> ledger, context |-> context, returned |-> "Ok"]

DefaultAccountInfo == [currencies |-> {}, status |-> "Open", meta |-> EmptyMap]

\* meta.insert(key, value) for every pair of the directive's meta
MergeMeta(meta, more) ==
    [k \in (DOMAIN meta) \cup (DOMAIN more) |-> IF k \in DOMAIN more THEN more[k] ELSE meta[k]]

Options_process(self, ledger, context) ==
    Result(self, [ledger EXCEPT !.configs = Put(@, self.key, self.value)], context)

\* As Open_process, but setting the allowed commodities to those of this Open.
Open_process_replace(self, ledger, context) ==
    LET account_info ==
            IF self.account \in DOMAIN ledger.accounts
            THEN ledger.accounts[self.account] ELSE DefaultAccountInfo
        updated ==
            [currencies |-> self.commodities,
             status |-> "Open",
             meta |-> MergeMeta(account_info.meta, self.meta)]
    IN Result(self, [ledger EXCEPT !.accounts = Put(@, self.account, updated)], context)

\* As Open_process, but closing the day first, as the balance-changing rules do.
Open_process_recording(self, ledger, context) ==
    LET r == record_daily_snapshot(ledger.snapshot, ledger.daily_snapshot,
                                   context.target_day, self.date)
        account_info ==
            IF self.account \in DOMAIN ledger.accounts
            THEN ledger.accounts[self.account] ELSE DefaultAccountInfo
        updated ==
            [currencies |-> account_info.currencies \cup self.commodities,
             status |-> "Open",
             meta |-> MergeMeta(account_info.meta, self.meta)]
    IN Result(self,
              [ledger EXCEPT !.accounts = Put(@, self.account, updated),
                             !.daily_snapshot = r.daily_snapshot],
              [context EXCEPT !.target_day = r.target_day])

Open_process(self, ledger, context) ==
    LET account_info ==
            IF self.account \in DOMAIN ledger.accounts
            THEN ledger.accounts[self.account] ELSE DefaultAccountInfo
        updated ==
            [currencies |-> account_info.currencies \cup self.commodities,
             status |-> "Open",
             meta |-> MergeMeta(account_info.meta, self.meta)]
    IN Result(self, [ledger EXCEPT !.accounts = Put(@, self.account, updated)], context)

Close_process(self, ledger, context) ==
    LET account_info ==
            IF self.account \in DOMAIN ledger.accounts
            THEN ledger.accounts[self.account] ELSE DefaultAccountInfo
        updated ==
            [currencies |-> account_info.currencies,
             status |-> "Close",
             meta |-> MergeMeta(account_info.meta, self.meta)]
    IN Result(self, [ledger EXCEPT !.accounts = Put(@, self.account, updated)], context)

Commodity_process(self, ledger, context) ==
    IF self.currency \in DOMAIN ledger.currencies
    THEN Result(self, ledger, context)
    ELSE Result(self,
                [ledger EXCEPT !.currencies =
                    Put(@, self.currency, [commodity |-> self, prices |-> EmptyMap])],
                context)

\* As AddPostings, but stopping after the first posting.
AddPostings_first_only(snapshot, txn_postings_) ==
    IF txn_postings_ = <<>> THEN snapshot
    ELSE LET p == Head(txn_postings_)
         IN Put(snapshot, p.account, add_amount(entry_or_default(snapshot, p.account), p.units))

RECURSIVE AddPostings(_, _)
\* The loop over txn_postings: add each posting's units to snapshot[account].
AddPostings(snapshot, txn_postings_) ==
    IF txn_postings_ = <<>> THEN snapshot
    ELSE LET p == Head(txn_postings_)
         IN AddPostings(
                Put(snapshot, p.account, add_amount(entry_or_default(snapshot, p.account), p.units)),
                Tail(txn_postings_))

\* As Transaction_process, but returning before the postings when is_balance fails.
Transaction_process_gated(self, ledger, context) ==
    LET r == record_daily_snapshot(ledger.snapshot, ledger.daily_snapshot,
                                   context.target_day, self.date)
    IN Result(self,
              [ledger EXCEPT !.daily_snapshot = r.daily_snapshot,
                             !.snapshot = IF is_balance(self)
                                          THEN AddPostings(@, txn_postings(self)) ELSE @],
              [context EXCEPT !.target_day = r.target_day])

RECURSIVE OpenUnknown(_, _)
\* The accounts map after an Open entry was made for every posting account it lacks.
OpenUnknown(accounts, postings) ==
    IF postings = <<>> THEN accounts
    ELSE OpenUnknown(
            IF Head(postings).account \in DOMAIN accounts THEN accounts
            ELSE Put(accounts, Head(postings).account, DefaultAccountInfo),
            Tail(postings))

\* As Transaction_process, but entering every unknown posting account as Open.
Transaction_process_auto_open(self, ledger, context) ==
    LET r == record_daily_snapshot(ledger.snapshot, ledger.daily_snapshot,
                                   context.target_day, self.date)
    IN Result(self,
              [ledger EXCEPT !.daily_snapshot = r.daily_snapshot,
                             !.snapshot = AddPostings(@, txn_postings(self)),
                             !.accounts = OpenUnknown(@, self.postings)],
              [context EXCEPT !.target_day = r.target_day])

Transaction_process(self, ledger, context) ==
    LET r == record_daily_snapshot(ledger.snapshot, ledger.daily_snapshot,
                                   context.target_day, self.date)
    IN Result(self,
              [ledger EXCEPT !.daily_snapshot = r.daily_snapshot,
                             !.snapshot = AddPostings(@, txn_postings(self))],
              [context EXCEPT !.target_day = r.target_day])

AccountBalanceCheckError(account_name, target, current, distance) ==
    [kind |-> "AccountBalanceCheckError", account_name |-> account_name,
     target |-> target, current |-> current, distance |-> distance]

\* As BalanceCheck_process, but reading the account through
\* snapshot.entry(..).or_insert_with(..), which creates the entry.
BalanceCheck_process_entry(self, ledger, context) ==
    LET r == record_daily_snapshot(ledger.snapshot, ledger.daily_snapshot,
                                   context.target_day, self.date)
        target_account_snapshot == entry_or_default(ledger.snapshot, self.account)
        decimal == get(target_account_snapshot, self.amount.currency)
        distance == Amount(self.amount.number - decimal, self.amount.currency)
        current == Amount(decimal, self.amount.currency)
        recorded == [ledger EXCEPT !.daily_snapshot = r.daily_snapshot,
                                   !.snapshot = Put(@, self.account, target_account_snapshot)]
        ctx == [context EXCEPT !.target_day = r.target_day]
    IN IF decimal # self.amount.number
       THEN Result([self EXCEPT !.current_amount = Some(current), !.distance = Some(distance)],
                   [recorded EXCEPT !.errors = Append(@,
                        AccountBalanceCheckError(self.account,
                            Amount(self.amount.number, self.amount.currency), current, distance))],
                   ctx)
       ELSE Result([self EXCEPT !.current_amount = Some(current)], recorded, ctx)

\* As BalanceCheck_process, but bringing the account to the asserted amount
\* when the check fails.
BalanceCheck_process_adjust(self, ledger, context) ==
    LET r == record_daily_snapshot(ledger.snapshot, ledger.daily_snapshot,
                                   context.target_day, self.date)
        target_account_snapshot == entry_or_default(ledger.snapshot, self.account)
        decimal == get(target_account_snapshot, self.amount.currency)
        distance == Amount(self.amount.number - decimal, self.amount.currency)
        current == Amount(decimal, self.amount.currency)
        recorded == [ledger EXCEPT !.daily_snapshot = r.daily_snapshot]
        ctx == [context EXCEPT !.target_day = r.target_day]
    IN IF decimal # self.amount.number
       THEN Result([self EXCEPT !.current_amount = Some(current), !.distance = Some(distance)],
                   [recorded EXCEPT
                        !.snapshot = Put(@, self.account,
                                         add_amount(target_account_snapshot, distance)),
                        !.errors = Append(@, AccountBalanceCheckError(self.account,
                            Amount(self.amount.number, self.amount.currency), current, distance))],
                   ctx)
       ELSE Result([self EXCEPT !.current_amount = Some(current)], recorded, ctx)

\* As BalanceCheck_process, but putting the new error in front of the log.
BalanceCheck_process_prepend(self, ledger, context) ==
    LET r == record_daily_snapshot(ledger.snapshot, ledger.daily_snapshot,
                                   context.target_day, self.date)
        target_account_snapshot ==
            IF self.account \in DOMAIN ledger.snapshot
            THEN ledger.snapshot[self.account] ELSE default_account_snapshot
        decimal == get(target_account_snapshot, self.amount.currency)
        distance == Amount(self.amount.number - decimal, self.amount.currency)
        current == Amount(decimal, self.amount.currency)
        recorded == [ledger EXCEPT !.daily_snapshot = r.daily_snapshot]
        ctx == [context EXCEPT !.target_day = r.target_day]
    IN IF decimal # self.amount.number
       THEN Result([self EXCEPT !.current_amount = Some(current), !.distance = Some(distance)],
                   [recorded EXCEPT !.errors =
                        <<AccountBalanceCheckError(self.account,
                            Amount(self.amount.number, self.amount.currency), current, distance)>>
                        \o @],
                   ctx)
       ELSE Result([self EXCEPT !.current_amount = Some(current)], recorded, ctx)

BalanceCheck_process(self, ledger, context) ==
    LET r == record_daily_snapshot(ledger.snapshot, ledger.daily_snapshot,
                                   context.target_day, self.date)
        target_account_snapshot ==
            IF self.account \in DOMAIN ledger.snapshot
            THEN ledger.snapshot[self.account] ELSE default_account_snapshot
        decimal == get(target_account_snapshot, self.amount.currency)
        distance == Amount(self.amount.number - decimal, self.amount.currency)
        current == Amount(decimal, self.amount.currency)
        recorded == [ledger EXCEPT !.daily_snapshot = r.daily_snapshot]
        ctx == [context EXCEPT !.target_day = r.target_day]
    IN IF decimal # self.amount.number
       THEN Result([self EXCEPT !.current_amount = Some(current), !.distance = Some(distance)],
                   [recorded EXCEPT !.errors = Append(@,
                        AccountBalanceCheckError(self.account,
                            Amount(self.amount.number, self.amount.currency), current, distance))],
                   ctx)
       ELSE Result([self EXCEPT !.current_amount = Some(current)], recorded, ctx)

\* As BalancePad_process, but replacing the account's inventory by the asserted amount.
BalancePad_process_reset(self, ledger, context) ==
    LET r == record_daily_snapshot(ledger.snapshot, ledger.daily_snapshot,
                                   context.target_day, self.date)
        target_account_snapshot == entry_or_default(ledger.snapshot, self.account)
        source_amount == get(target_account_snapshot, self.amount.currency)
        distance == self.amount.number - source_amount
        neg_distance == -distance
        snapshot1 == Put(ledger.snapshot, self.account,
                         add_amount(default_account_snapshot, self.amount))
        pad_account_snapshot == entry_or_default(snapshot1, self.pad)
        snapshot2 == Put(snapshot1, self.pad,
                         add_amount(pad_account_snapshot, Amount(neg_distance, self.amount.currency)))
    IN Result(self,
              [ledger EXCEPT !.daily_snapshot = r.daily_snapshot, !.snapshot = snapshot2],
              [context EXCEPT !.target_day = r.target_day])

\* As BalancePad_process, but adding the asserted amount instead of the distance.
BalancePad_process_additive(self, ledger, context) ==
    LET r == record_daily_snapshot(ledger.snapshot, ledger.daily_snapshot,
                                   context.target_day, self.date)
        target_account_snapshot == entry_or_default(ledger.snapshot, self.account)
        distance == self.amount.number
        neg_distance == -distance
        snapshot1 == Put(ledger.snapshot, self.account,
                         add_amount(target_account_snapshot, Amount(distance, self.amount.currency)))
        pad_account_snapshot == entry_or_default(snapshot1, self.pad)
        snapshot2 == Put(snapshot1, self.pad,
                         add_amount(pad_account_snapshot, Amount(neg_distance, self.amount.currency)))
    IN Result(self,
              [ledger EXCEPT !.daily_snapshot = r.daily_snapshot, !.snapshot = snapshot2],
              [context EXCEPT !.target_day = r.target_day])

\* As BalancePad_process, but adding distance, not its negation, to the pad account.
BalancePad_process_same_sign(self, ledger, context) ==
    LET r == record_daily_snapshot(ledger.snapshot, ledger.daily_snapshot,
                                   context.target_day, self.date)
        target_account_snapshot == entry_or_default(ledger.snapshot, self.account)
        source_amount == get(target_account_snapshot, self.amount.currency)
        distance == self.amount.number - source_amount
        snapshot1 == Put(ledger.snapshot, self.account,
                         add_amount(target_account_snapshot, Amount(distance, self.amount.currency)))
        pad_account_snapshot == entry_or_default(snapshot1, self.pad)
        snapshot2 == Put(snapshot1, self.pad,
                         add_amount(pad_account_snapshot, Amount(distance, self.amount.currency)))
    IN Result(self,
              [ledger EXCEPT !.daily_snapshot = r.daily_snapshot, !.snapshot = snapshot2],
              [context EXCEPT !.target_day = r.target_day])

BalancePad_process(self, ledger, context) ==
    LET r == record_daily_snapshot(ledger.snapshot, ledger.daily_snapshot,
                                   context.target_day, self.date)
        target_account_snapshot == entry_or_default(ledger.snapshot, self.account)
        source_amount == get(target_account_snapshot, self.amount.currency)
        distance == self.amount.number - source_amount
        neg_distance == -distance
        snapshot1 == Put(ledger.snapshot, self.account,
                         add_amount(target_account_snapshot, Amount(distance, self.amount.currency)))
        pad_account_snapshot == entry_or_default(snapshot1, self.pad)
        snapshot2 == Put(snapshot1, self.pad,
                         add_amount(pad_account_snapshot, Amount(neg_distance, self.amount.currency)))
    IN Result(self,
              [ledger EXCEPT !.daily_snapshot = r.daily_snapshot, !.snapshot = snapshot2],
              [context EXCEPT !.target_day = r.target_day])

Document_process(self, ledger, context) ==
    Result(self,
           [ledger EXCEPT !.documents =
                Put(@, self.filename,
                    [date |-> self.date, account |-> self.account, filename |-> self.filename])],
           context)

\* DatedPriceGrip::insert(date, base, quote, rate)
grip_insert(prices, date, base, quote, rate) == Put(prices, <<date, base, quote>>, rate)

Price_process(self, ledger, context) ==
    Result(self,
           [ledger EXCEPT !.prices =
                grip_insert(@, self.date, self.currency, self.amount.currency, self.amount.number)],
           context)

\* ------------------------------------------------------------- the state
VARIABLES
    ledger,      \* Ledger: accounts, currencies, configs, documents, prices,
                 \*         snapshot, daily_snapshot, errors
    context,     \* ProcessContext: target_day
    directive,   \* the directive processed last, as process left it (&mut self)
    steps,       \* number of directives processed
    asOf,        \* history: per day D, the snapshot built from the directives dated <= D
    shadow,      \* the same run without one passing BalanceCheck: its ledger and context
    skipped,     \* None, or Some(the date of the BalanceCheck left out of the shadow run)
    returned,    \* None, or Some(the ZhangResult of the last process call)
    again,       \* TRUE iff the directive handed in last is the one the call before left
    cli          \* the command-line run: its subcommand, the outcome of its operation,
                 \* what went to stderr and the exit status of the process

vars == <<ledger, context, directive, steps, asOf, shadow, skipped, returned, again, cli>>

\* The command line before a subcommand has been parsed.
CliIdle == [pc |-> "idle", command |-> None, result |-> None, stderr |-> <<>>, exit |-> None]

EmptyLedger ==
    [accounts |-> EmptyMap, currencies |-> EmptyMap, configs |-> EmptyMap,
     documents |-> EmptyMap, prices |-> EmptyMap,
     snapshot |-> EmptyMap, daily_snapshot |-> EmptyMap, errors |-> <<>>]

Init ==
    /\ ledger = EmptyLedger
    /\ context = [target_day |-> None]
    /\ directive = [kind |-> "None", date |-> 1]
    /\ steps = 0
    /\ asOf = [D \in Dates |-> EmptyMap]
    /\ shadow = [ledger |-> EmptyLedger, context |-> [target_day |-> None]]
    /\ skipped = None
    /\ returned = None
    /\ again = FALSE
    /\ cli = CliIdle

\* The loader hands the directives over in ascending date order: the next one
\* is dated the day of the last one or the day after.
NextDates == {directive.date, directive.date + 1} \cap Dates

\* The process rule of a directive, by its kind.
process(self, l, c) ==
    CASE self.kind = "Options" -> Options_process(self, l, c)
      [] self.kind = "Open" -> Open_process(self, l, c)
      [] self.kind = "Close" -> Close_process(self, l, c)
      [] self.kind = "Commodity" -> Commodity_process(self, l, c)
      [] self.kind = "Transaction" -> Transaction_process(self, l, c)
      [] self.kind = "BalanceCheck" -> BalanceCheck_process(self, l, c)
      [] self.kind = "BalancePad" -> BalancePad_process(self, l, c)
      [] self.kind = "Document" -> Document_process(self, l, c)
      [] self.kind = "Price" -> Price_process(self, l, c)

\* The effect of a directive on a snapshot alone, used for the history asOf.
SnapshotAfter(self, snapshot) ==
    process(self, [EmptyLedger EXCEPT !.snapshot = snapshot], [target_day |-> None]).ledger.snapshot

\* One directive through the processor; the shadow run takes it too unless skip.
Apply(d, skip) ==
    /\ LET r == process(d, ledger, context)
           s == process(d, shadow.ledger, shadow.context)
       IN /\ ledger' = r.ledger
          /\ context' = r.context
          /\ directive' = r.self
          /\ returned' = Some(r.returned)
          /\ shadow' = IF skip THEN shadow ELSE [ledger |-> s.ledger, context |-> s.context]
    /\ steps' = steps + 1
    /\ asOf' = [D \in Dates |-> IF D >= d.date THEN SnapshotAfter(d, asOf[D]) ELSE asOf[D]]
    /\ skipped' = IF skip THEN Some(d.date) ELSE skipped
    /\ again' = (d = directive)
    /\ UNCHANGED cli

Step(d, skip) == steps < MaxSteps /\ Apply(d, skip)

ProcessOptions == \E date \in NextDates : \E d \in OptionsDirectives(date) : Step(d, FALSE)
ProcessOpen == \E date \in NextDates : \E d \in OpenDirectives(date) : Step(d, FALSE)
ProcessClose == \E date \in NextDates : \E d \in CloseDirectives(date) : Step(d, FALSE)
ProcessCommodity ==
    \E date \in NextDates : \E d \in CommodityDirectives(date) : Step(d, FALSE)
ProcessTransaction ==
    \E date \in NextDates : \E d \in TransactionDirectives(date) : Step(d, FALSE)
ProcessBalanceCheck ==
    \E date \in NextDates : \E d \in BalanceCheckDirectives(date) : Step(d, FALSE)
ProcessBalancePad ==
    \E date \in NextDates : \E d \in BalancePadDirectives(date) : Step(d, FALSE)

ProcessDocument == \E date \in NextDates : \E d \in DocumentDirectives(date) : Step(d, FALSE)
ProcessPrice == \E date \in NextDates : \E d \in PriceDirectives(date) : Step(d, FALSE)

\* A BalanceCheck that passes (records no error), left out of the shadow run.
ProcessBalanceCheckOnly ==
    /\ skipped = None
    /\ \E date \in NextDates : \E d \in BalanceCheckDirectives(date) :
        /\ process(d, ledger, context).ledger.errors = ledger.errors
        /\ Step(d, TRUE)

Next ==
    \/ ProcessOptions
    \/ ProcessOpen
    \/ ProcessClose
    \/ ProcessTransaction
    \/ ProcessBalanceCheck
    \/ ProcessBalancePad
    \/ ProcessDocument
    \/ ProcessPrice
    \/ ProcessCommodity
    \/ ProcessBalanceCheckOnly

Spec == Init /\ [][Next]_vars

\* ------------------------------------------- Open and Close in sequence
\* Runs of Open and Close alone, with several commodity sets and metadata maps.
OpenMetas == {EmptyMap, [note |-> "x"], [note |-> "y", tag |-> "t"]}
CloseMetas == {EmptyMap, [closed |-> "y"]}
AccountOpenDirectives(date) ==
    [kind : {"Open"}, date : {date}, account : Accounts,
     commodities : {{}, {"USD"}, {"CNY"}}, meta : OpenMetas]
AccountCloseDirectives(date) ==
    [kind : {"Close"}, date : {date}, account : Accounts, meta : CloseMetas]

AccountOpen ==
    /\ steps < MaxAccountSteps
    /\ \E d \in AccountOpenDirectives(directive.date) : Apply(d, FALSE)
AccountClose ==
    /\ steps < MaxAccountSteps
    /\ \E d \in AccountCloseDirectives(directive.date) : Apply(d, FALSE)

NextAccounts == AccountOpen \/ AccountClose

SpecAccounts == Init /\ [][NextAccounts]_vars

\* --------------------------------------------- days of recording directives
\* Longer runs of the three kinds that call record_daily_snapshot.
DayPostings ==
    {<<[account |-> "Assets:Cash", units |-> Some(Amount(10, "USD"))],
       [account |-> "Equity:Pad", units |-> Some(Amount(-10, "USD"))]>>,
     <<[account |-> "Equity:Pad", units |-> Some(Amount(1, "USD"))],
       [account |-> "Assets:Cash", units |-> None]>>}
DayTransactionDirectives(date) ==
    {[kind |-> "Transaction", date |-> date, postings |-> pp] : pp \in DayPostings}
DayBalanceCheckDirectives(date) ==
    [kind : {"BalanceCheck"}, date : {date}, account : {"Assets:Cash"},
     amount : {Amount(10, "USD")}, current_amount : {None}, distance : {None}]
DayBalancePadDirectives(date) ==
    [kind : {"BalancePad"}, date : {date}, account : {"Assets:Cash"},
     amount : {Amount(0, "USD")}, pad : {"Equity:Pad"}]

DayTransaction ==
    /\ steps < MaxDaySteps
    /\ \E date \in NextDates : \E d \in DayTransactionDirectives(date) : Apply(d, FALSE)
DayBalanceCheck ==
    /\ steps < MaxDaySteps
    /\ \E date \in NextDates : \E d \in DayBalanceCheckDirectives(date) : Apply(d, FALSE)
DayBalancePad ==
    /\ steps < MaxDaySteps
    /\ \E date \in NextDates : \E d \in DayBalancePadDirectives(date) : Apply(d, FALSE)

NextDays == DayTransaction \/ DayBalanceCheck \/ DayBalancePad

SpecDays == Init /\ [][NextDays]_vars

\* ------------------------------------------------ pads among three accounts
\* Runs of transactions and pads over a third account and both commodities.
PadAccounts == Accounts \cup {"Expenses:Food"}
PadPostings ==
    {<<[account |-> "Expenses:Food", units |-> Some(Amount(5, "USD"))],
       [account |-> "Assets:Cash", units |-> None]>>,
     <<[account |-> "Assets:Cash", units |-> Some(Amount(3, "CNY"))],
       [account |-> "Equity:Pad", units |-> Some(Amount(-3, "CNY"))]>>,
     <<[account |-> "Equity:Pad", units |-> Some(Amount(10, "USD"))],
       [account |-> "Expenses:Food", units |-> Some(Amount(-10, "USD"))]>>}
PadTransactionDirectives(date) ==
    {[kind |-> "Transaction", date |-> date, postings |-> pp] : pp \in PadPostings}
PadDirectives(date) ==
    [kind : {"BalancePad"}, date : {date}, account : {"Assets:Cash", "Expenses:Food"},
     amount : {Amount(0, "USD"), Amount(10, "USD"), Amount(4, "CNY")},
     pad : {"Equity:Pad", "Assets:Cash"}]

PadTransaction ==
    /\ steps < MaxPadSteps
    /\ \E date \in NextDates : \E d \in PadTransactionDirectives(date) : Apply(d, FALSE)
Pad ==
    /\ steps < MaxPadSteps
    /\ \E date \in NextDates : \E d \in PadDirectives(date) : Apply(d, FALSE)

NextPads == PadTransaction \/ Pad

SpecPads == Init /\ [][NextPads]_vars

\* ------------------------------------------------------- command line
\* The four subcommands of Opts with a few values for their arguments.
DefaultPort == 6666

Files == {"main.bean", "missing.bean", "broken.bean"}

Commands ==
    [kind : {"Wechat"}, file : Files, config : {"wechat.toml", "other.toml"}]
    \cup [kind : {"Parse"}, file : Files]
    \cup [kind : {"Beancount"}, file : Files, output : {None, Some("out.bean")}]
    \cup [kind : {"Server"}, file : Files, port : {DefaultPort, 8080}]

\* What the operation behind a subcommand returns: Ok, or an Err that is an
\* I/O or a parse failure.
ZhangResults == {"Ok", "IoError", "ParseError"}

\* The process starts Opts::run on the parsed command line.
Invoke(command) ==
    /\ cli.pc = "idle"
    /\ cli' = [cli EXCEPT !.pc = "run", !.command = Some(command)]
    /\ UNCHANGED <<ledger, context, directive, steps, asOf, shadow, skipped, returned, again>>

\* match result { Ok(_) => {}, Err(error) => eprintln!("{}", error) }: the
\* function returns normally in both arms.
ReportAndReturn(result) ==
    /\ cli' = [cli EXCEPT !.pc = "returned",
                          !.result = Some(result),
                          !.stderr = IF result = "Ok" THEN @ ELSE Append(@, result)]
    /\ UNCHANGED <<ledger, context, directive, steps, asOf, shadow, skipped, returned, again>>

\* result.expect(msg): Ok returns, Err panics with the message.
Expect(result, msg) ==
    /\ cli' = [cli EXCEPT !.pc = IF result = "Ok" THEN "returned" ELSE "panicked",
                          !.result = Some(result),
                          !.stderr = IF result = "Ok" THEN @ ELSE Append(@, msg)]
    /\ UNCHANGED <<ledger, context, directive, steps, asOf, shadow, skipped, returned, again>>

ImportOpts_run ==
    /\ cli.pc = "run"
    /\ cli.command[1].kind = "Wechat"
    /\ \E result \in ZhangResults : ReportAndReturn(result)

ExportOpts_run ==
    /\ cli.pc = "run"
    /\ cli.command[1].kind = "Beancount"
    /\ \E result \in ZhangResults : ReportAndReturn(result)

Parse_run ==
    /\ cli.pc = "run"
    /\ cli.command[1].kind = "Parse"
    /\ \E result \in ZhangResults : Expect(result, "Cannot load ledger")

Server_run ==
    /\ cli.pc = "run"
    /\ cli.command[1].kind = "Server"
    /\ \E result \in ZhangResults : Expect(result, "cannot serve")

\* The process ends: with status 0 when Opts::run returned, with the panic
\* status when it panicked.
PanicStatus == 101

Exit ==
    /\ cli.pc \in {"returned", "panicked"}
    /\ cli' = [cli EXCEPT !.pc = "exited",
                          !.exit = Some(IF cli.pc = "returned" THEN 0 ELSE PanicStatus)]
    /\ UNCHANGED <<ledger, context, directive, steps, asOf, shadow, skipped, returned, again>>

NextCli ==
    \/ \E command \in Commands : Invoke(command)
    \/ ImportOpts_run
    \/ ExportOpts_run
    \/ Parse_run
    \/ Server_run
    \/ Exit

SpecCli == Init /\ [][NextCli]_vars

\* ================================================================ claims
\* The value of commodity c that a snapshot holds for an account (zero if absent).
Balance(snapshot, account, c) == get(entry_or_default(snapshot, account), c)

\* ---------------------------------------------------------------- C1
\* C1: under ascending-date processing, every entry daily_snapshot[D] equals the
\* snapshot built from exactly the directives dated <= D.
C1_DailySnapshotAsOfDay ==
    \A D \in DOMAIN ledger.daily_snapshot : ledger.daily_snapshot[D] = asOf[D]

\* A frozen day that holds balances, while a later day's directive has already
\* changed the running snapshot.
C1_Witness ==
    \E D \in DOMAIN ledger.daily_snapshot :
        /\ ledger.daily_snapshot[D] # EmptyMap
        /\ ledger.daily_snapshot[D] # ledger.snapshot
        /\ directive.date > D

\* ---------------------------------------------------------------- C2
\* What a BalancePad step promises for account A, pad P, amount X of C.
PadReached(d, before, after) ==
    LET pre_A == Balance(before, d.account, d.amount.currency)
        pre_P == Balance(before, d.pad, d.amount.currency)
    IN /\ Balance(after, d.account, d.amount.currency) = d.amount.number
       /\ Balance(after, d.pad, d.amount.currency) = pre_P - (d.amount.number - pre_A)

\* C2 as stated: after every BalancePad, the pad account being the padded account
\* included, snapshot[A].get(C) = X.number and snapshot[P].get(C) has changed by
\* -(X.number - pre_A).
C2_Original ==
    [][directive'.kind = "BalancePad"
        => PadReached(directive', ledger.snapshot, ledger'.snapshot)]_vars

\* C2 amended: the above for a pad account other than the padded account; when
\* the two are the same account the adjustments cancel and its value stays pre_A.
C2_PadCorrect ==
    [][directive'.kind = "BalancePad"
        => IF directive'.pad # directive'.account
           THEN PadReached(directive', ledger.snapshot, ledger'.snapshot)
           ELSE Balance(ledger'.snapshot, directive'.account, directive'.amount.currency)
                = Balance(ledger.snapshot, directive'.account, directive'.amount.currency)]_vars

\* A pad between two accounts that both held something of the commodity before.
C2_Witness ==
    /\ directive.kind = "BalancePad"
    /\ directive.pad # directive.account
    /\ Balance(ledger.snapshot, directive.account, directive.amount.currency)
        = directive.amount.number
    /\ Balance(ledger.snapshot, directive.pad, directive.amount.currency)
        \notin {0, -directive.amount.number}

\* ---------------------------------------------------------------- C3
\* The ledger state C3 compares.
LedgerView(l) ==
    [accounts |-> l.accounts, snapshot |-> l.snapshot, daily_snapshot |-> l.daily_snapshot,
     errors |-> l.errors, prices |-> l.prices]

NewErrors(before, after) == SubSeq(after, Len(before) + 1, Len(after))

\* C4 as stated: a BalanceCheck appends an AccountBalanceCheckError, carrying
\* target, current and distance, exactly when |amount.number - current| exceeds
\* the tolerance 0.5*10^(-precision); within the tolerance it records nothing.
C4_Original ==
    [][directive'.kind = "BalanceCheck"
        => LET d == directive'
               c == d.amount.currency
               current == Balance(ledger.snapshot, d.account, c)
               distance == d.amount.number - current
           IN IF Abs(distance) > Tolerance(ledger.configs)
              THEN NewErrors(ledger.errors, ledger'.errors)
                    = <<AccountBalanceCheckError(d.account, d.amount,
                                                 Amount(current, c), Amount(distance, c))>>
              ELSE ledger'.errors = ledger.errors]_vars

\* ---------------------------------------------------------------- C5
\* C5 as stated: a processed Transaction either sums to zero per commodity within
\* the tolerance, or appends exactly one TransactionNotBalanced error.
C5_Original ==
    [][directive'.kind = "Transaction"
        => \/ is_balance(directive')
           \/ /\ Len(ledger'.errors) = Len(ledger.errors) + 1
              /\ ledger'.errors[Len(ledger'.errors)].kind = "TransactionNotBalanced"]_vars

\* ---------------------------------------------------------------- C6
RECURSIVE PostedTo(_, _, _)
\* The units of commodity c that a sequence of postings with units puts on an account.
PostedTo(txn_postings_, account, c) ==
    IF txn_postings_ = <<>> THEN 0
    ELSE LET p == Head(txn_postings_)
         IN (IF p.account = account /\ p.units.currency = c THEN p.units.number ELSE 0)
            + PostedTo(Tail(txn_postings_), account, c)

\* C6: every Transaction, balanced or not, adds the units of each posting to
\* snapshot[posting.account], creating the entry if absent.
C6_UnbalancedStillApplied ==
    [][directive'.kind = "Transaction"
        => /\ \A a \in Accounts : \A c \in Commodities :
                Balance(ledger'.snapshot, a, c)
                    = Balance(ledger.snapshot, a, c) + PostedTo(txn_postings(directive'), a, c)
           /\ \A i \in DOMAIN directive'.postings :
                directive'.postings[i].account \in DOMAIN ledger'.snapshot]_vars

\* An unbalanced transaction has been processed and its amounts are in the snapshot.
C6_Witness ==
    /\ directive.kind = "Transaction"
    /\ ~is_balance(directive)
    /\ \A i \in DOMAIN directive.postings :
        /\ directive.postings[i].units # None
        /\ Balance(ledger.snapshot, directive.postings[i].account,
                   directive.postings[i].units[1].currency) # 0

\* ---------------------------------------------------------------- C7
\* The postings of a transaction that come without units.
Residuals(self) == {i \in DOMAIN self.postings : self.postings[i].units = None}

RECURSIVE ExplicitTo(_, _, _)
\* The explicit units of commodity c that a sequence of postings puts on an account.
ExplicitTo(postings, account, c) ==
    IF postings = <<>> THEN 0
    ELSE LET p == Head(postings)
         IN (IF p.account = account /\ p.units # None /\ p.units[1].currency = c
             THEN p.units[1].number ELSE 0)
            + ExplicitTo(Tail(postings), account, c)

\* C7: when exactly one posting omits units, its account receives the negation
\* of the per-commodity sum of the other postings, and every other posting's
\* account receives its explicit units.
C7_ResidualPostingInferred ==
    [][directive'.kind = "Transaction" /\ Cardinality(Residuals(directive')) = 1
        => LET d == directive'
               r == CHOOSE i \in Residuals(d) : TRUE
           IN \A a \in Accounts : \A c \in Commodities :
                Balance(ledger'.snapshot, a, c)
                    = Balance(ledger.snapshot, a, c) + ExplicitTo(d.postings, a, c)
                      + (IF d.postings[r].account = a THEN -SumOf(d.postings, c) ELSE 0)]_vars

\* The spec's example: {Assets:Cash -10 USD, Equity:Pad <none>} on a ledger
\* without earlier postings.
C7_Witness ==
    /\ directive.kind = "Transaction"
    /\ directive.postings[1] = [account |-> "Assets:Cash", units |-> Some(Amount(-10, "USD"))]
    /\ directive.postings[2] = [account |-> "Equity:Pad", units |-> None]
    /\ Balance(ledger.snapshot, "Assets:Cash", "USD") = -10
    /\ Balance(ledger.snapshot, "Equity:Pad", "USD") = 10

\* ---------------------------------------------------------------- C8
\* Whether a step appended an error of the kind.
Appended(kind, before, after) ==
    \E k \in (Len(before) + 1)..Len(after) : after[k].kind = kind

\* C8 as stated: a Transaction posting to an account whose status is Close
\* appends TransactionHasAccountAlreadyClosed.
C8_Original ==
    [][(/\ directive'.kind = "Transaction"
        /\ \E i \in DOMAIN directive'.postings :
            /\ directive'.postings[i].account \in DOMAIN ledger.accounts
            /\ ledger.accounts[directive'.postings[i].account].status = "Close")
        => Appended("TransactionHasAccountAlreadyClosed", ledger.errors, ledger'.errors)]_vars

\* ---------------------------------------------------------------- C9
\* C9 as stated: a Transaction posting a commodity outside the non-empty allowed
\* set of the posting's account appends AccountCommodityNotDefined.
C9_Original ==
    [][(/\ directive'.kind = "Transaction"
        /\ \E i \in DOMAIN directive'.postings :
            LET p == txn_postings(directive')[i]
            IN /\ p.account \in DOMAIN ledger.accounts
               /\ ledger.accounts[p.account].currencies # {}
               /\ p.units.currency \notin ledger.accounts[p.account].currencies)
        => Appended("AccountCommodityNotDefined", ledger.errors, ledger'.errors)]_vars

\* ---------------------------------------------------------------- C10
\* C10 as stated: Close leaves the account in status Close and, when the account
\* holds a non-zero amount of some commodity, appends AccountClosedWithBalance.
C10_Original ==
    [][directive'.kind = "Close"
        => /\ directive'.account \in DOMAIN ledger'.accounts
           /\ ledger'.accounts[directive'.account].status = "Close"
           /\ (\E c \in Commodities : Balance(ledger.snapshot, directive'.account, c) # 0)
                => Appended("AccountClosedWithBalance", ledger.errors, ledger'.errors)]_vars

\* ---------------------------------------------------------------- C11
\* The account's entry before a directive, or one without commodities and
\* metadata when the account is not known yet.
InfoBefore(accounts, account) ==
    IF account \in DOMAIN accounts THEN accounts[account]
    ELSE [currencies |-> {}, status |-> "Unknown", meta |-> EmptyMap]

\* C11: an Open leaves its account Open and a Close leaves it Close, whatever
\* came before; Open adds its commodities to the allowed set and Close leaves the
\* set alone; both write their metadata keys over the old map and keep the other
\* keys; no other account changes.  Hence the status follows the last Open or
\* Close and the allowed set is the union of all commodities given.
C11_StatusFollowsLastDirective ==
    [][directive'.kind \in {"Open", "Close"}
        => LET d == directive'
               old == InfoBefore(ledger.accounts, d.account)
               new == ledger'.accounts[d.account]
           IN /\ DOMAIN ledger'.accounts = (DOMAIN ledger.accounts) \cup {d.account}
              /\ new.status = d.kind
              /\ new.currencies
                    = old.currencies \cup (IF d.kind = "Open" THEN d.commodities ELSE {})
              /\ DOMAIN new.meta = (DOMAIN old.meta) \cup (DOMAIN d.meta)
              /\ \A k \in DOMAIN d.meta : new.meta[k] = d.meta[k]
              /\ \A k \in (DOMAIN old.meta) \ (DOMAIN d.meta) : new.meta[k] = old.meta[k]
              /\ \A b \in (DOMAIN ledger.accounts) \ {d.account} :
                    ledger'.accounts[b] = ledger.accounts[b]]_vars

\* An account opened with USD, closed, and opened again with CNY: it is Open,
\* allows both commodities and still carries the metadata of its Close.
C11_Witness ==
    /\ directive.kind = "Open"
    /\ directive.commodities = {"CNY"}
    /\ directive.account \in DOMAIN ledger.accounts
    /\ ledger.accounts[directive.account].status = "Open"
    /\ ledger.accounts[directive.account].currencies = {"USD", "CNY"}
    /\ "closed" \in DOMAIN ledger.accounts[directive.account].meta

\* ---------------------------------------------------------------- C12
\* The accounts a transaction posts to.
PostingAccounts(self) == {self.postings[i].account : i \in DOMAIN self.postings}

C14_Original ==
    [][(directive'.kind = "Price" /\ directive'.currency \in DOMAIN ledger.currencies)
        => LET d == directive'
               quote == d.amount.currency
           IN /\ ledger'.prices[<<d.date, d.currency, quote>>] = d.amount.number
              /\ <<quote, d.date>> \in DOMAIN ledger'.currencies[d.currency].prices
              /\ ledger'.currencies[d.currency].prices[<<quote, d.date>>]
                    = d.amount.number]_vars

\* ---------------------------------------------------------------- C15
\* C15: every process call returns Ok, keeps the errors already logged where
\* they are and puts what it records, about its own directive, at the end.
C15_ErrorsAccumulateInOrder ==
    [][/\ returned' = Some("Ok")
       /\ Len(ledger'.errors) >= Len(ledger.errors)
       /\ SubSeq(ledger'.errors, 1, Len(ledger.errors)) = ledger.errors
       /\ \A k \in (Len(ledger.errors) + 1)..Len(ledger'.errors) :
            ledger'.errors[k].account_name = directive'.account]_vars

\* Two failed checks, on different accounts, logged in the order they ran.
C15_Witness ==
    /\ Len(ledger.errors) = 2
    /\ directive.kind = "BalanceCheck"
    /\ ledger.errors[2].account_name = directive.account
    /\ ledger.errors[1].account_name # directive.account
    /\ returned = Some("Ok")

\* ---------------------------------------------------------------- C16
\* C16: after any BalanceCheck, passing or failing, the directive carries
\* current_amount = (current, commodity) and distance = (amount.number -
\* current, commodity), current being the account's snapshot value before the
\* call (zero when absent).
C16_Original ==
    [][directive'.kind = "BalanceCheck"
        => LET d == directive'
               current == Balance(ledger.snapshot, d.account, d.amount.currency)
           IN /\ d.current_amount = Some(Amount(current, d.amount.currency))
              /\ d.distance = Some(Amount(d.amount.number - current, d.amount.currency))]_vars

\* ---------------------------------------------------------------- C17
\* C17: a subcommand ends with exit status 0 when its operation succeeds and
\* with a non-zero status when the operation fails with an I/O or parse error.
C17_Original ==
    cli.pc = "exited" => (cli.exit = Some(0) <=> cli.result = Some("Ok"))

\* ---------------------------------------------------------------- C18
\* C18: every key of daily_snapshot is a day strictly before target_day; a
\* step that closes a day stores it under a key not stored before; and every
\* entry already stored is the same after the step.
C18_DailySnapshotAppendOnly ==
    [][/\ \A day \in DOMAIN ledger'.daily_snapshot :
            context'.target_day # None /\ day < context'.target_day[1]
       /\ (context.target_day # None /\ context'.target_day # context.target_day)
            => context.target_day[1] \notin DOMAIN ledger.daily_snapshot
       /\ \A day \in DOMAIN ledger.daily_snapshot :
            /\ day \in DOMAIN ledger'.daily_snapshot
            /\ ledger'.daily_snapshot[day] = ledger.daily_snapshot[day]]_vars

\* A day was stored, a later directive has moved the balance, and the stored
\* entry still holds the old balance.
C18_Witness ==
    /\ steps = 3
    /\ directive.kind \in {"Transaction", "BalancePad"}
    /\ context.target_day = Some(2)
    /\ 1 \in DOMAIN ledger.daily_snapshot
    /\ asOf[1] = ledger.daily_snapshot[1]
    /\ Balance(ledger.snapshot, "Assets:Cash", "USD")
         # Balance(ledger.daily_snapshot[1], "Assets:Cash", "USD")
    /\ asOf[2] = ledger.snapshot
    /\ directive.date = 2
    /\ ledger.daily_snapshot[1] # EmptyMap

\* ---------------------------------------------------------------- C19
\* C19: a BalanceCheck, passing or failing, leaves the running snapshot as it
\* was: no balance moves and no entry is created for an account without one,
\* whereas a BalancePad leaves an entry for both of its accounts.
C19_CheckLeavesSnapshot ==
    [][/\ directive'.kind = "BalanceCheck" => ledger'.snapshot = ledger.snapshot
       /\ directive'.kind = "BalancePad"
            => {directive'.account, directive'.pad} \subseteq DOMAIN ledger'.snapshot]_vars

\* A failed check on an account that has no snapshot entry, after a
\* transaction gave the other account one.
C19_Witness ==
    /\ directive.kind = "BalanceCheck"
    /\ directive.distance # None
    /\ directive.current_amount = Some(Amount(0, directive.amount.currency))
    /\ Len(ledger.errors) = 1
    /\ directive.account \notin DOMAIN ledger.snapshot
    /\ ledger.snapshot # EmptyMap

\* ---------------------------------------------------------------- C20
\* C20: Open, Close, Commodity, Options, Document and Price leave snapshot,
\* daily_snapshot and target_day as they were, so a day with only these
\* directives neither becomes a key of daily_snapshot nor closes the day before.
NonRecordingKinds == {"Open", "Close", "Commodity", "Options", "Document", "Price"}

C20_NonRecordingLeavesDays ==
    [][directive'.kind \in NonRecordingKinds
        => /\ ledger'.snapshot = ledger.snapshot
           /\ ledger'.daily_snapshot = ledger.daily_snapshot
           /\ context'.target_day = context.target_day]_vars

\* A non-recording directive dated after the open day: the open day is still
\* the target and still not stored.
C20_Witness ==
    /\ directive.kind \in NonRecordingKinds
    /\ context.target_day # None
    /\ directive.date > context.target_day[1]
    /\ context.target_day[1] \notin DOMAIN ledger.daily_snapshot
    /\ directive.date \notin DOMAIN ledger.daily_snapshot
    /\ ledger.snapshot # EmptyMap

\* ---------------------------------------------------------------- C21
RECURSIVE TotalOver(_, _, _)
\* The sum of commodity c over the accounts in names, as a snapshot holds them.
TotalOver(snapshot, names, c) ==
    IF names = {} THEN 0
    ELSE LET a == CHOOSE x \in names : TRUE
         IN Balance(snapshot, a, c) + TotalOver(snapshot, names \ {a}, c)

\* The sum of commodity c over all accounts of a snapshot.
Total(snapshot, c) == TotalOver(snapshot, DOMAIN snapshot, c)

\* C21: a BalancePad of account A from a different pad account P in commodity C
\* changes no balance other than those of A and P in C, leaves every other
\* account's entry and the sum of C over all accounts as they were, and
\* appends no error, whatever the distance.
C21_PadConservativeAndLocal ==
    [][(directive'.kind = "BalancePad" /\ directive'.account # directive'.pad)
        => LET d == directive'
               both == {d.account, d.pad}
           IN /\ \A a \in PadAccounts : \A c \in Commodities :
                    (a \notin both \/ c # d.amount.currency)
                        => Balance(ledger'.snapshot, a, c) = Balance(ledger.snapshot, a, c)
              /\ DOMAIN ledger'.snapshot = DOMAIN ledger.snapshot \cup both
              /\ \A a \in DOMAIN ledger.snapshot \ both :
                    ledger'.snapshot[a] = ledger.snapshot[a]
              /\ Total(ledger'.snapshot, d.amount.currency)
                    = Total(ledger.snapshot, d.amount.currency)
              /\ ledger'.errors = ledger.errors]_vars

\* A pad of Assets:Cash to 10 USD from Equity:Pad while Expenses:Food holds
\* USD and Assets:Cash holds CNY: both are as the transactions left them.
C21_Witness ==
    /\ directive.kind = "BalancePad"
    /\ directive.account = "Assets:Cash"
    /\ directive.pad = "Equity:Pad"
    /\ directive.amount = Amount(10, "USD")
    /\ Balance(ledger.snapshot, "Assets:Cash", "USD") = 10
    /\ Balance(ledger.snapshot, "Equity:Pad", "USD") = -15
    /\ Balance(ledger.snapshot, "Expenses:Food", "USD") = 5
    /\ Balance(ledger.snapshot, "Assets:Cash", "CNY") = 3
    /\ Total(ledger.snapshot, "USD") = 0
    /\ ledger.errors = <<>>

\* ---------------------------------------------------------------- C22
\* C22: processing the same BalancePad (account different from pad account)
\* a second time in a row leaves the running snapshot as the first left it.
C22_PadIdempotent ==
    [][(again' /\ directive'.kind = "BalancePad" /\ directive'.account # directive'.pad)
        => ledger'.snapshot = ledger.snapshot]_vars

\* The same pad twice after a transaction: the first moved the account by a
\* non-zero distance, the second left it at the asserted amount.
C22_Witness ==
    /\ again
    /\ steps = 3
    /\ directive.kind = "BalancePad"
    /\ directive.account = "Expenses:Food"
    /\ directive.pad = "Equity:Pad"
    /\ directive.amount = Amount(10, "USD")
    /\ Balance(ledger.snapshot, "Expenses:Food", "USD") = 10
    /\ Balance(ledger.snapshot, "Equity:Pad", "USD") = -5
    /\ Balance(ledger.snapshot, "Assets:Cash", "USD") = -5

====
